---- MODULE Spec2Model ----
(***************************************************************************)
(* Automaton Auditor: the detective graph of src/graph.py (a LangGraph     *)
(* StateGraph over AgentState), its reducers (src/state.py) and its nodes  *)
(* (src/nodes/detectives.py), as a state machine.                          *)
(*                                                                         *)
(* Spec         one run of the graph, started either by                    *)
(*              run_detective_phase or by invoking the compiled graph of   *)
(*              create_detective_graph on a caller-supplied AgentState.    *)
(* ReducerSpec  the reducers of AgentState applied to the partial outputs  *)
(*              of concurrent branches, in every completion order.         *)
(* JudgeSpec    one judge node (src/nodes/judges.py) looping over the      *)
(*              rubric, call by call.                                      *)
(* JusticeSpec  chief_justice_node (src/nodes/justice.py) applied to the   *)
(*              opinions and evidence of a state.                          *)
(* AuditSpec    the full audit: detectives, judges, chief justice.         *)
(* CliSpec      the command line of src/cli.py around run_detective_phase. *)
(* CloneSpec    repo_investigator_node step by step around the context     *)
(*              manager of src/tools/repo_tools.py.                        *)
(***************************************************************************)
EXTENDS Integers, Sequences, FiniteSets, TLC

VARIABLES
    entry,          \* how the run was started: "run_detective_phase" | "invoke"
    rubric_present, \* whether rubric.json exists in the working directory
    repo_url,       \* the target reference handed to the run; "" when it is missing
    initial_state,  \* the AgentState handed to graph.invoke
    state,          \* the graph's channels (AgentState), merged through the reducers
    running,        \* tasks of the current superstep that have not completed
    triggered,      \* nodes triggered for the next superstep
    step,           \* superstep counter
    status,         \* "init" | "running" | "END" | "error"
    exc,            \* the exception that ended graph.invoke, "none" otherwise
    result,         \* what the caller gets back: an AgentState, or None
    visits,         \* node -> number of completed executions in this run
    passRuns,       \* node -> completed executions since the last retry_node
    routes,         \* labels returned by the conditional edges so far
    lastDone,       \* the node that completed last
    lastWrite,      \* the partial state returned by that node
    outcome,        \* detective -> how its last execution went ("not_run" before)
    writes,         \* ReducerSpec: branch -> partial state it returns
    pending,        \* ReducerSpec: branches whose output is not merged yet
    lastMerged,     \* ReducerSpec: the branch merged last, 0 before the first
    prior,          \* ReducerSpec: the state before any branch output is merged
    rubric,         \* state["rubric_dimensions"]: the criterion ids, in rubric order
    persona,        \* JudgeSpec: the judge node that is executing
    structured_llm, \* JudgeSpec: whether get_structured_judge returned a model
    dim,            \* JudgeSpec: index in rubric of the dimension being judged
    attempt,        \* JudgeSpec: the loop variable `attempt` of the retry loop
    opinions,       \* JudgeSpec: the node's local list `opinions`
    argv,           \* CliSpec: the positional arguments given to the command line
    exit_code,      \* CliSpec: the exit code of the process, once status is "exited"
    temp_dir,       \* CloneSpec: the TemporaryDirectory of the RepoInvestigator on disk
    with_pc         \* CloneSpec: where repo_investigator_node is around its with-statement

vars == <<entry, rubric_present, repo_url, initial_state, state, running, triggered, step,
          status, exc, result, visits, passRuns, routes, lastDone, lastWrite,
          outcome, writes, pending, lastMerged, prior,
          rubric, persona, structured_llm, dim, attempt, opinions,
          argv, exit_code, temp_dir, with_pc>>

graphVars == <<entry, rubric_present, repo_url, initial_state, running, triggered, step,
               status, exc, result, visits, passRuns, routes, lastDone, lastWrite,
               outcome>>

reducerVars == <<writes, pending, lastMerged, prior>>

judgeVars == <<persona, structured_llm, dim, attempt, opinions>>

courtVars == <<rubric, judgeVars>>

cliVars == <<argv, exit_code>>

cloneVars == <<temp_dir, with_pc>>

toolVars == <<cliVars, cloneVars>>

None == "None"

(***************************************************************************)
(* Bounds                                                                  *)
(***************************************************************************)
\* Superstep budget of one graph.invoke (the executor's recursion limit; the
\* graph is invoked without a recursion_limit of its own, the library's is 25).
RecursionLimit == 25
\* Longest errors list a caller hands to graph.invoke.
MaxInitErrors == 4
\* ReducerSpec: number of concurrent branches, items per branch.
MaxBranches == 3
MaxItems == 2

(***************************************************************************)
(* Graph structure                                                         *)
(***************************************************************************)
Nodes == {"repo_investigator", "doc_analyst", "evidence_aggregator",
          "error_handler", "retry_node", "check_evidence"}

Sources == {"repo", "doc"}

Detectives == {"repo_investigator", "doc_analyst"}

(***************************************************************************)
(* Reducers of AgentState (src/state.py)                                   *)
(***************************************************************************)
\* A field without a reducer: the update replaces the value (not the code).
last_value(a, b) == b

\* operator.ior on two dicts: a |= b. A key of b replaces the same key of a.
operator_ior(a, b) ==
    [k \in DOMAIN a \cup DOMAIN b |-> IF k \in DOMAIN b THEN b[k] ELSE a[k]]

\* An append that drops items the list already holds (not the code).
add_unique(a, b) == a \o SelectSeq(b, LAMBDA x : \A i \in 1..Len(a) : a[i] # x)

\* operator.add on two lists: a + b.
operator_add(a, b) == a \o b

\* The executor merging one node's partial state into the channels: every
\* field the node returned goes through that field's reducer; final_report
\* has none and is replaced.
ApplyWrites(s, w) ==
    [evidences    |-> IF "evidences" \in DOMAIN w
                      THEN operator_ior(s.evidences, w.evidences) ELSE s.evidences,
     opinions     |-> IF "opinions" \in DOMAIN w
                      THEN operator_add(s.opinions, w.opinions) ELSE s.opinions,
     final_report |-> IF "final_report" \in DOMAIN w
                      THEN w.final_report ELSE s.final_report,
     errors       |-> IF "errors" \in DOMAIN w
                      THEN operator_add(s.errors, w.errors) ELSE s.errors,
     warnings     |-> IF "warnings" \in DOMAIN w
                      THEN operator_add(s.warnings, w.warnings) ELSE s.warnings]

\* The dict {} and the partial state {}.
EmptyDict == [k \in {} |-> <<>>]

\* run_detective_phase's initial_state.
InitialState(errs) ==
    [evidences |-> EmptyDict, opinions |-> <<>>, final_report |-> None,
     errors |-> errs, warnings |-> <<>>]

(***************************************************************************)
(* Conditional edges (src/graph.py)                                        *)
(***************************************************************************)
\* The routing with the threshold off by one (not the code).
should_retry_or_fail_ge(s) ==
    IF Len(s.errors) >= 3 THEN "fail"
    ELSE IF Len(s.errors) > 0 THEN "retry"
    ELSE "continue"

should_retry_or_fail(s) ==
    IF Len(s.errors) > 3 THEN "fail"
    ELSE IF Len(s.errors) > 0 THEN "retry"
    ELSE "continue"

RECURSIVE SumLen(_, _)
SumLen(d, keys) ==
    IF keys = {} THEN 0
    ELSE LET k == CHOOSE x \in keys : TRUE
         IN  Len(d[k]) + SumLen(d, keys \ {k})

total_evidence(s) == SumLen(s.evidences, DOMAIN s.evidences)

check_evidence_exists(s) ==
    IF total_evidence(s) = 0 THEN "missing_evidence" ELSE "has_evidence"

\* The label -> node mappings of add_conditional_edges; "END" ends the branch.
AggregatorTarget(label) ==
    CASE label = "continue" -> {"check_evidence"}
      [] label = "retry"    -> {"retry_node"}
      [] label = "fail"     -> {"error_handler"}

CheckEvidenceTarget(label) ==
    CASE label = "has_evidence"     -> {}
      [] label = "missing_evidence" -> {"error_handler"}

(***************************************************************************)
(* Detective nodes (src/nodes/detectives.py)                               *)
(***************************************************************************)
\* Evidence(...): confidence in hundredths, timestamp = the superstep of creation.
Evidence(goal, found, confidence, collected_by, now) ==
    [goal |-> goal, found |-> found, confidence |-> confidence,
     collected_by |-> collected_by, timestamp |-> now]

\* Where repo_investigator_node's try block can fault: RubricLoader() (no
\* rubric.json), RepoInvestigator.__enter__ (clone_repo fails or times out),
\* check_sandboxing (open/read of a tool file, the one analysis without a
\* try of its own), __exit__ (temp_dir.cleanup()); or nowhere.
RepoFaults == {"none", "RubricLoader", "clone_repo", "check_sandboxing", "cleanup"}

\* What the four analyses report about the cloned repository.
RepoAnalyses ==
    [commits_gt3 : BOOLEAN, has_progression : BOOLEAN, has_parallel : BOOLEAN,
     has_reducers : BOOLEAN, has_evidence : BOOLEAN,
     has_tempfile : BOOLEAN, no_os_system : BOOLEAN]

\* No analysis ran (the fault came first).
NoAnalysis == [f \in {"commits_gt3", "has_progression", "has_parallel", "has_reducers",
                      "has_evidence", "has_tempfile", "no_os_system"} |-> FALSE]

\* Every analysis found what it looked for.
AllFound == [f \in DOMAIN NoAnalysis |-> TRUE]

RepoFaultEvidence(now) ==
    Evidence("Clone and analyze repository successfully", FALSE, 0, "RepoInvestigator", now)

\* The list `evidences` of repo_investigator_node when it returns: the records
\* appended before the fault, then the except branch's record.
RepoEvidences(fault, a, now) ==
    LET git     == Evidence("Git commit history", a.commits_gt3,
                            IF a.has_progression THEN 90 ELSE 50, "RepoInvestigator", now)
        graph   == Evidence("Graph has parallel fan-out architecture", a.has_parallel,
                            IF a.has_parallel THEN 95 ELSE 30, "RepoInvestigator", now)
        models  == Evidence("State uses Pydantic with reducers",
                            a.has_reducers /\ a.has_evidence,
                            IF a.has_reducers THEN 95 ELSE 30, "RepoInvestigator", now)
        sandbox == Evidence("Tools use proper sandboxing",
                            a.has_tempfile /\ a.no_os_system,
                            IF a.has_tempfile THEN 90 ELSE 20, "RepoInvestigator", now)
        failed  == RepoFaultEvidence(now)
    IN  CASE fault \in {"RubricLoader", "clone_repo"} -> << failed >>
          [] fault = "check_sandboxing" -> << git, graph, models, failed >>
          [] fault = "cleanup"          -> << git, graph, models, sandbox, failed >>
          [] fault = "none"             -> << git, graph, models, sandbox >>

repo_investigator_node(fault, a, now) ==
    [evidences |-> [k \in {"repo"} |-> RepoEvidences(fault, a, now)]]

\* The report file as DocAnalyst finds it.
PdfStates == {"missing", "unreadable", "readable"}

\* doc_analyst_node: extract_text raises FileNotFoundError when the file is
\* missing and whatever pypdf raises when it cannot be read; when it succeeds,
\* analyst.chunk_text() is called without its required argument `text` and
\* raises TypeError, so the concept, file-path and diagram records are never
\* appended: every outcome ends in one of the two except branches.
DocEvidences(pdf, now) ==
    IF pdf = "missing"
    THEN << Evidence("Access PDF file", FALSE, 0, "DocAnalyst", now) >>
    ELSE << Evidence("Parse PDF successfully", FALSE, 0, "DocAnalyst", now) >>

\* A collector that also reports its fault in errors (not the code).
doc_analyst_node_errors(pdf, now) ==
    [evidences |-> [k \in {"doc"} |-> DocEvidences(pdf, now)],
     errors |-> << "Error parsing PDF" >>]

doc_analyst_node(pdf, now) ==
    [evidences |-> [k \in {"doc"} |-> DocEvidences(pdf, now)]]

\* An aggregator that files a report of its own (not the code).
evidence_aggregator_node_report(s) ==
    [final_report |-> [criteria |-> <<>>, overall_score |-> [total |-> 0, count |-> 0]]]

\* evidence_aggregator_node and check_evidence_node print a summary and return {}.
evidence_aggregator_node(s) == EmptyDict

\* A check that also reports what it counted (not the code).
check_evidence_node_warns(s) == [warnings |-> << "Evidence checked" >>]

check_evidence_node(s) == EmptyDict

\* retry_operation returns {"errors": []}.
retry_operation(s) == [errors |-> <<>>]

\* handle_errors returns {"warnings": ["Graph terminated due to errors"]}.
handle_errors(s) == [warnings |-> << "Graph terminated due to errors" >>]

(***************************************************************************)
(* The run: run_detective_phase / graph.invoke (src/graph.py)              *)
(***************************************************************************)
ZeroCount == [n \in Nodes |-> 0]

\* No judge node is executing and no rubric is in the state.
JudgeIdle ==
    /\ rubric = <<>>
    /\ persona = None
    /\ structured_llm = FALSE
    /\ dim = 0
    /\ attempt = 0
    /\ opinions = <<>>

\* No command line and no RepoInvestigator object are involved.
ToolIdle ==
    /\ argv = <<>>
    /\ exit_code = 0
    /\ temp_dir = None
    /\ with_pc = "none"

ErrorLists == {[i \in 1..n |-> "error"] : n \in 0..MaxInitErrors}

\* Nodes whose body has statements outside any try (the print calls of
\* evidence_aggregator_node, check_evidence_node, retry_operation and
\* handle_errors raise when stdout cannot take them: a closed pipe, a
\* console encoding without the emoji). The detectives catch every Exception.
Unprotected == {"evidence_aggregator", "check_evidence", "retry_node", "error_handler"}

\* run_detective_phase takes the target reference as it is given (a repository
\* URL, or nothing: the empty string) and puts it in the initial state.
RepoUrls == {"url", ""}

\* How an execution of repo_investigator_node can go for a target reference:
\* git clone of a missing reference fails, so the node gets no further than
\* clone_repo.
FaultsFor(url) == IF url = "" THEN {"RubricLoader", "clone_repo"} ELSE RepoFaults

\* What the analyses can report in an execution of repo_investigator_node
\* that faults at `fault`; the full audit is explored for the two extreme
\* repositories.
AnalysesFor(fault) ==
    IF fault \in {"RubricLoader", "clone_repo"} THEN {NoAnalysis}
    ELSE IF entry = "run_full_audit" THEN {NoAnalysis, AllFound}
    ELSE RepoAnalyses

Init ==
    /\ entry \in {"run_detective_phase", "invoke"}
    /\ rubric_present \in BOOLEAN
    /\ repo_url \in RepoUrls
    /\ entry = "invoke" => repo_url = "url"
    /\ initial_state \in {InitialState(e) : e \in ErrorLists}
    /\ entry = "run_detective_phase" => initial_state = InitialState(<<>>)
    /\ state = InitialState(<<>>)
    /\ running = {}
    /\ triggered = {}
    /\ step = 0
    /\ status = "init"
    /\ exc = "none"
    /\ result = None
    /\ visits = ZeroCount
    /\ passRuns = ZeroCount
    /\ routes = {}
    /\ lastDone = "START"
    /\ lastWrite = EmptyDict
    /\ outcome = [n \in {"repo_investigator", "doc_analyst"} |-> "not_run"]
    /\ writes = <<>>
    /\ pending = {}
    /\ lastMerged = 0
    /\ prior = InitialState(<<>>)
    /\ JudgeIdle
    /\ ToolIdle

\* What the caller of the run gets when graph.invoke raises e: run_detective_phase
\* catches it and returns {**initial_state, "errors": [str(e)]}; a direct caller
\* of graph.invoke gets the exception and no state.
AfterException(e) ==
    IF entry \in {"run_detective_phase", "run_full_audit"}
    THEN [initial_state EXCEPT !.errors = << e >>]
    ELSE None

\* RubricLoader() in run_detective_phase (before the try) and in
\* create_detective_graph raises FileNotFoundError without rubric.json: no graph
\* is built. Otherwise the input is written to the channels through the
\* reducers and START fans out to both detectives.
Start ==
    /\ status = "init"
    /\ IF rubric_present
       THEN /\ state' = ApplyWrites(state, initial_state)
            /\ running' = {"repo_investigator", "doc_analyst"}
            /\ step' = 1
            /\ status' = "running"
            /\ UNCHANGED exc
       ELSE /\ status' = "error"
            /\ exc' = "FileNotFoundError"
            /\ UNCHANGED <<state, running, step>>
    /\ UNCHANGED <<entry, rubric_present, repo_url, initial_state, triggered, result, visits,
                   passRuns, routes, lastDone, lastWrite, outcome, reducerVars, courtVars, toolVars>>

\* Bookkeeping of a node that returned the partial state w and triggers `next`.
Complete(n, w, next) ==
    /\ state' = ApplyWrites(state, w)
    /\ running' = running \ {n}
    /\ triggered' = triggered \cup next
    /\ visits' = [visits EXCEPT ![n] = @ + 1]
    /\ lastDone' = n
    /\ lastWrite' = w
    /\ UNCHANGED <<entry, rubric_present, repo_url, initial_state, step, status, exc, result,
                   reducerVars, courtVars, toolVars>>

RepoInvestigator ==
    /\ status = "running"
    /\ "repo_investigator" \in running
    /\ \E fault \in FaultsFor(repo_url) :
       \E a \in AnalysesFor(fault) :
          /\ Complete("repo_investigator", repo_investigator_node(fault, a, step),
                      {"evidence_aggregator"})
          /\ outcome' = [outcome EXCEPT !["repo_investigator"] = fault]
    /\ passRuns' = [passRuns EXCEPT !["repo_investigator"] = @ + 1]
    /\ UNCHANGED routes

DocAnalyst ==
    /\ status = "running"
    /\ "doc_analyst" \in running
    /\ \E pdf \in PdfStates :
          /\ Complete("doc_analyst", doc_analyst_node(pdf, step), {"evidence_aggregator"})
          /\ outcome' = [outcome EXCEPT !["doc_analyst"] = pdf]
    /\ passRuns' = [passRuns EXCEPT !["doc_analyst"] = @ + 1]
    /\ UNCHANGED routes

\* evidence_aggregator, then its conditional edge on the merged state.
EvidenceAggregator ==
    /\ status = "running"
    /\ "evidence_aggregator" \in running
    /\ LET w     == evidence_aggregator_node(state)
           label == should_retry_or_fail(ApplyWrites(state, w))
       IN  /\ Complete("evidence_aggregator", w, AggregatorTarget(label))
           /\ routes' = routes \cup {label}
    /\ passRuns' = [passRuns EXCEPT !["evidence_aggregator"] = @ + 1]
    /\ UNCHANGED outcome

CheckEvidence ==
    /\ status = "running"
    /\ "check_evidence" \in running
    /\ LET w     == check_evidence_node(state)
           label == check_evidence_exists(ApplyWrites(state, w))
       IN  /\ Complete("check_evidence", w, CheckEvidenceTarget(label))
           /\ routes' = routes \cup {label}
    /\ passRuns' = [passRuns EXCEPT !["check_evidence"] = @ + 1]
    /\ UNCHANGED outcome

\* retry_node, then the edge retry_node -> repo_investigator: a new pass begins.
RetryNode ==
    /\ status = "running"
    /\ "retry_node" \in running
    /\ Complete("retry_node", retry_operation(state), {"repo_investigator"})
    /\ passRuns' = ZeroCount
    /\ UNCHANGED <<routes, outcome>>

\* error_handler, then the edge error_handler -> END.
ErrorHandler ==
    /\ status = "running"
    /\ "error_handler" \in running
    /\ Complete("error_handler", handle_errors(state), {})
    /\ passRuns' = [passRuns EXCEPT !["error_handler"] = @ + 1]
    /\ UNCHANGED <<routes, outcome>>

\* A node body raises: nothing is written, graph.invoke raises.
NodeFault ==
    /\ status = "running"
    /\ \E n \in running \cap Unprotected :
          /\ lastDone' = n
          /\ running' = running \ {n}
    /\ status' = "error"
    /\ exc' = "NodeFault"
    /\ result' = AfterException("NodeFault")
    /\ lastWrite' = EmptyDict
    /\ UNCHANGED <<entry, rubric_present, repo_url, initial_state, state, triggered, step,
                   visits, passRuns, routes, outcome, reducerVars, courtVars, toolVars>>

\* End of a superstep with nodes triggered and budget left: they run next.
NextSuperstep ==
    /\ status = "running"
    /\ running = {}
    /\ triggered # {}
    /\ step < RecursionLimit
    /\ running' = triggered
    /\ triggered' = {}
    /\ step' = step + 1
    /\ UNCHANGED <<entry, rubric_present, repo_url, initial_state, state, status, exc, result,
                   visits, passRuns, routes, lastDone, lastWrite, outcome, reducerVars, courtVars, toolVars>>

\* End of a superstep with nothing triggered: graph.invoke returns the state.
Finish ==
    /\ status = "running"
    /\ running = {}
    /\ triggered = {}
    /\ status' = "END"
    /\ result' = state
    /\ UNCHANGED <<entry, rubric_present, repo_url, initial_state, state, running, triggered,
                   step, exc, visits, passRuns, routes, lastDone, lastWrite, outcome, reducerVars, courtVars, toolVars>>

\* End of a superstep with nodes triggered and the budget spent.
RecursionError ==
    /\ status = "running"
    /\ running = {}
    /\ triggered # {}
    /\ step >= RecursionLimit
    /\ status' = "error"
    /\ exc' = "GraphRecursionError"
    /\ result' = AfterException("GraphRecursionError")
    /\ UNCHANGED <<entry, rubric_present, repo_url, initial_state, state, running, triggered,
                   step, visits, passRuns, routes, lastDone, lastWrite, outcome, reducerVars, courtVars, toolVars>>

Next ==
    \/ Start
    \/ RepoInvestigator
    \/ DocAnalyst
    \/ EvidenceAggregator
    \/ CheckEvidence
    \/ RetryNode
    \/ ErrorHandler
    \/ NodeFault
    \/ NextSuperstep
    \/ Finish
    \/ RecursionError

Spec == Init /\ [][Next]_vars

(***************************************************************************)
(* ReducerSpec: the outputs of concurrent branches merged in any order     *)
(***************************************************************************)
AppendFields == {"opinions", "errors", "warnings"}

\* Evidence lists and source_id -> [Evidence] mappings the branches return.
EvLists == { << Evidence("goal A", TRUE, 90, "RepoInvestigator", 1) >>,
             << Evidence("goal B", FALSE, 0, "DocAnalyst", 1) >> }

EvDicts == UNION { [keys -> EvLists] : keys \in SUBSET Sources }

\* Items of an append-reduced field: error and warning strings, opinions.
Items(f) ==
    IF f = "opinions"
    THEN { [judge |-> "Prosecutor", criterion_id |-> "c1", score |-> 1],
           [judge |-> "Defense", criterion_id |-> "c1", score |-> 4] }
    ELSE { "message 1", "message 2" }

ItemLists(f, k) == [1..k -> Items(f)]

\* One field of a partial state.
Partial(f, v) == [x \in {f} |-> v]

\* Either the detectives' branches return evidences, or up to MaxBranches
\* branches return the same number of items for one append-reduced field.
ReducerInit ==
    /\ \/ \E n \in 1..Cardinality(Detectives) :
             /\ \E d \in EvDicts : prior = [InitialState(<<>>) EXCEPT !.evidences = d]
             /\ writes \in [1..n -> {Partial("evidences", d) : d \in EvDicts}]
       \/ \E n \in 1..MaxBranches, f \in AppendFields, k \in 0..MaxItems :
             /\ \E p \in ItemLists(f, 0) \cup ItemLists(f, 1) :
                   prior = [InitialState(<<>>) EXCEPT ![f] = p]
             /\ writes \in [1..n -> {Partial(f, l) : l \in ItemLists(f, k)}]
    /\ pending = DOMAIN writes
    /\ lastMerged = 0
    /\ state = prior
    /\ JudgeIdle
    /\ ToolIdle
    /\ entry = "invoke"
    /\ rubric_present = TRUE
    /\ repo_url = "url"
    /\ initial_state = prior
    /\ running = {}
    /\ triggered = {}
    /\ step = 0
    /\ status = "merging"
    /\ exc = "none"
    /\ result = None
    /\ visits = ZeroCount
    /\ passRuns = ZeroCount
    /\ routes = {}
    /\ lastDone = "START"
    /\ lastWrite = EmptyDict
    /\ outcome = [n \in {"repo_investigator", "doc_analyst"} |-> "not_run"]

\* Branch b completes: its partial state is merged into the channels.
MergeWrite(b) ==
    /\ b \in pending
    /\ state' = ApplyWrites(state, writes[b])
    /\ pending' = pending \ {b}
    /\ lastMerged' = b
    /\ UNCHANGED <<graphVars, writes, prior, courtVars, toolVars>>

ReducerNext == \E b \in DOMAIN writes : MergeWrite(b)

ReducerSpec == ReducerInit /\ [][ReducerNext]_vars

(***************************************************************************)
(* Helpers of the properties                                               *)
(***************************************************************************)
Range(seq) == {seq[i] : i \in 1..Len(seq)}

Count(seq, x) == Cardinality({i \in 1..Len(seq) : seq[i] = x})

RECURSIVE SumCount(_, _, _, _)
SumCount(ws, f, x, bs) ==
    IF bs = {} THEN 0
    ELSE LET b == CHOOSE y \in bs : TRUE
         IN  Count(ws[b][f], x) + SumCount(ws, f, x, bs \ {b})

\* The field every branch of a ReducerSpec run writes.
WrittenField == CHOOSE f \in AppendFields \cup {"evidences"} : f \in DOMAIN writes[1]

DisjointWrites ==
    \A a, b \in DOMAIN writes :
        a # b => DOMAIN writes[a].evidences \cap DOMAIN writes[b].evidences = {}

\* The branch outputs merged in the order of their indices.
RECURSIVE InOrder(_, _)
InOrder(s, i) ==
    IF i > Len(writes) THEN s ELSE InOrder(ApplyWrites(s, writes[i]), i + 1)

\* The records of an evidence list, timestamps left out.
Facts(seq) == {[seq[i] EXCEPT !.timestamp = 0] : i \in 1..Len(seq)}

(***************************************************************************)
(* C1: state.evidences and state.opinions only grow: every Evidence record *)
(* and every opinion in the state before a step is still there after it,   *)
(* also across retry_node and a re-run of repo_investigator. Records are    *)
(* compared without their timestamps, so that a record collected again     *)
(* with the same content counts as still present.                          *)
(***************************************************************************)
C1_EvidenceOnlyGrows ==
    [][ /\ \A k \in DOMAIN state.evidences :
              /\ k \in DOMAIN state'.evidences
              /\ Facts(state.evidences[k]) \subseteq Facts(state'.evidences[k])
        /\ Range(state.opinions) \subseteq Range(state'.opinions) ]_vars

(***************************************************************************)
(* C2: merging two source_id -> [Evidence] mappings A and B keeps, for     *)
(* every key k of both, every record of A[k] and every record of B[k] in   *)
(* merge(A,B)[k]. Stated on the first merge of a run: A is the prior       *)
(* state's mapping, B the first branch's.                                  *)
(***************************************************************************)
C2_CollisionConcatenates ==
    (status = "merging" /\ Cardinality(pending) = Len(writes) - 1
        /\ WrittenField = "evidences") =>
        LET A == prior.evidences
            B == writes[lastMerged].evidences
        IN  \A k \in DOMAIN A \cap DOMAIN B :
                /\ Range(A[k]) \subseteq Range(state.evidences[k])
                /\ Range(B[k]) \subseteq Range(state.evidences[k])

(***************************************************************************)
(* C3: for branch outputs with pairwise disjoint keys the merged evidences *)
(* are the same in every completion order: whatever order the branches     *)
(* were merged in, the result is the one of merging them in index order.   *)
(***************************************************************************)
C3_DisjointMergeCommutes ==
    (pending = {} /\ status = "merging" /\ WrittenField = "evidences" /\ DisjointWrites)
        => state.evidences = InOrder(prior, 1).evidences

\* Two branches with different non-empty outputs on disjoint keys, one of them
\* replacing a key of the prior state, the second branch merged first.
C3_Witness ==
    /\ pending = {} /\ status = "merging" /\ WrittenField = "evidences" /\ DisjointWrites
    /\ Len(writes) = 2
    /\ lastMerged = 1
    /\ DOMAIN writes[1].evidences = {"repo"}
    /\ DOMAIN writes[2].evidences = {"doc"}
    /\ DOMAIN prior.evidences = {"repo"}
    /\ prior.evidences["repo"] # writes[1].evidences["repo"]
    /\ state.evidences = [k \in Sources |-> writes[IF k = "repo" THEN 1 ELSE 2].evidences[k]]

(***************************************************************************)
(* C4: after N branches each returned k items for an append-reduced field  *)
(* (opinions, errors, warnings), the field holds the prior items plus N*k  *)
(* items, every item as often as the prior list and the branches hold it   *)
(* together, in every completion order.                                    *)
(***************************************************************************)
C4_AppendComplete ==
    (pending = {} /\ status = "merging" /\ WrittenField \in AppendFields) =>
        LET f == WrittenField
            n == Len(writes)
            k == Len(writes[1][f])
        IN  /\ Len(state[f]) = Len(prior[f]) + n * k
            /\ \A x \in Items(f) :
                  Count(state[f], x) = Count(prior[f], x) + SumCount(writes, f, x, 1..n)
            /\ \A g \in AppendFields \ {f} : state[g] = prior[g]

\* Three branches, two items each, one item returned by two branches and held
\* by the prior list, the first branch merged last.
C4_Witness ==
    /\ pending = {} /\ status = "merging" /\ WrittenField = "opinions"
    /\ Len(writes) = 3
    /\ Len(writes[1].opinions) = 2
    /\ lastMerged = 1
    /\ Len(prior.opinions) = 1
    /\ writes[1].opinions[1] = writes[3].opinions[2]
    /\ writes[1].opinions[1] = prior.opinions[1]
    /\ writes[2].opinions[1] # writes[2].opinions[2]
    /\ Len(state.opinions) = 7

(***************************************************************************)
(* C5: every execution ends at END: the cycle evidence_aggregator ->       *)
(* retry_node -> repo_investigator is bounded by a retry counter, after    *)
(* which the run goes to error_handler; so no run that went through        *)
(* retry_node is ended by the executor's superstep budget, and a finished  *)
(* run that retried has passed error_handler or check_evidence.            *)
(***************************************************************************)
C5_RetryCycleEndsAtEND ==
    /\ exc # "GraphRecursionError"
    /\ (status = "END" /\ visits["retry_node"] > 0) =>
          visits["error_handler"] + visits["check_evidence"] > 0

(***************************************************************************)
(* C6: evidence_aggregator is a fan-in barrier on every pass, also after   *)
(* retry_node: it is scheduled only when repo_investigator and doc_analyst *)
(* have both completed in that pass, and it runs once per pass.            *)
(***************************************************************************)
C6_AggregatorIsBarrier ==
    /\ ("evidence_aggregator" \in running \/ passRuns["evidence_aggregator"] > 0) =>
          \A d \in Detectives : passRuns[d] > 0
    /\ passRuns["evidence_aggregator"] <= 1

(***************************************************************************)
(* C7: after evidence_aggregator completes exactly one route is taken, by  *)
(* the error count: more than 3 errors -> error_handler and then END with  *)
(* no check_evidence; 1 to 3 errors -> retry_node; 0 errors ->             *)
(* check_evidence. The route of a run is decided the same way every visit. *)
(***************************************************************************)
C7_Target ==
    IF Len(state.errors) > 3 THEN "error_handler"
    ELSE IF Len(state.errors) >= 1 THEN "retry_node"
    ELSE "check_evidence"

C7_OneRouteByErrorCount ==
    /\ (status = "running" /\ lastDone = "evidence_aggregator") =>
          running \cup triggered = {C7_Target}
    /\ Cardinality(routes \cap {"continue", "retry", "fail"}) <= 1
    /\ Len(state.errors) > 3 =>
          /\ visits["check_evidence"] = 0
          /\ visits["retry_node"] = 0
          /\ "check_evidence" \notin running \cup triggered
          /\ status = "END" => (lastDone = "error_handler" /\ visits["error_handler"] = 1)

\* A run with exactly 3 errors is in retry_node's second pass, and a run with
\* more than 3 has ended behind error_handler.
C7_WitnessRetry ==
    /\ Len(state.errors) = 3
    /\ lastDone = "evidence_aggregator"
    /\ visits["retry_node"] = 1
    /\ triggered = {"retry_node"}

C7_Witness ==
    /\ Len(state.errors) = 4
    /\ status = "END"
    /\ routes = {"fail"}
    /\ visits["evidence_aggregator"] = 1
    /\ state.warnings = << "Graph terminated due to errors" >>

(***************************************************************************)
(* C8: repo_investigator_node and doc_analyst_node never raise; a fault at *)
(* any point of the collection makes the node return an evidence list of   *)
(* exactly one record, with found = false.                                 *)
(***************************************************************************)
C8_FaultGivesSingleRecord ==
    /\ exc = "NodeFault" => lastDone \notin Detectives
    /\ (lastDone = "repo_investigator" /\ outcome["repo_investigator"] # "none") =>
          /\ Len(lastWrite.evidences["repo"]) = 1
          /\ ~lastWrite.evidences["repo"][1].found
    /\ lastDone = "doc_analyst" =>
          /\ Len(lastWrite.evidences["doc"]) = 1
          /\ ~lastWrite.evidences["doc"][1].found

(***************************************************************************)
(* C9: if one collector fails and the other yields at least one Evidence   *)
(* item, the run is not diverted to retry_node or error_handler: it takes  *)
(* the routes 'continue' and 'has_evidence' and ends at END.               *)
(***************************************************************************)
CollectorFailed(d) ==
    IF d = "repo_investigator"
    THEN outcome[d] \in RepoFaults \ {"none"}
    ELSE outcome[d] \in PdfStates

SourceOf(d) == IF d = "repo_investigator" THEN "repo" ELSE "doc"

\* Both collectors have run, one failed and the other's source holds a record.
OneFailedOtherYields ==
    \E d, o \in Detectives :
        /\ d # o
        /\ CollectorFailed(d)
        /\ outcome[o] # "not_run"
        /\ SourceOf(o) \in DOMAIN state.evidences
        /\ Len(state.evidences[SourceOf(o)]) >= 1

NotDiverted ==
    /\ visits["retry_node"] = 0
    /\ visits["error_handler"] = 0
    /\ {"retry_node", "error_handler"} \cap (running \cup triggered) = {}
    /\ routes \subseteq {"continue", "has_evidence"}
    /\ visits["evidence_aggregator"] > 0 => "continue" \in routes
    /\ visits["check_evidence"] > 0 => "has_evidence" \in routes
    /\ status = "END" => routes = {"continue", "has_evidence"}

C10_NodeFaultIsRecorded ==
    exc = "NodeFault" =>
        /\ status \in {"running", "END"}
        /\ "NodeFault" \in Range(state.errors)
        /\ visits[lastDone] > 0

(***************************************************************************)
(* C11, C12: the preconditions of run_detective_phase                      *)
(***************************************************************************)
\* The run started by run_detective_phase is over.
RunOver == entry = "run_detective_phase" /\ status \in {"END", "error"}

\* C11: run_detective_phase returns a result state for every input and never
\* raises; when the run fails as a whole the returned state has a non-empty
\* errors list and no final_report. Violated: without rubric.json the
\* exception of RubricLoader() leaves run_detective_phase and nothing is
\* returned.
C11_AlwaysReturnsState ==
    RunOver =>
        /\ result # None
        /\ status = "error" =>
              /\ Len(result.errors) > 0
              /\ result.final_report = None

\* C12: with the rubric or the target reference missing the run fails before
\* the graph starts and no graph node executes. Violated: a missing target
\* reference is handed to the graph, whose nodes run.
C12_NoNodeRunsWithoutPreconditions ==
    (entry = "run_detective_phase" /\ (~rubric_present \/ repo_url = "")) =>
        /\ running = {}
        /\ \A n \in Nodes : visits[n] = 0
        /\ status \in {"init", "error"}

(***************************************************************************)
(* The judges: prosecutor_node, defense_node, tech_lead_node               *)
(* (src/nodes/judges.py)                                                   *)
(***************************************************************************)
Judges == {"Prosecutor", "Defense", "TechLead"}

\* Criterion ids of the rubric (the "id" of a dimension of rubric.json).
CriterionIds == {"graph_orchestration", "theoretical_depth"}

\* state["rubric_dimensions"] as the judges and the chief justice read it.
Rubrics == {<< "graph_orchestration" >>, << "theoretical_depth" >>,
            << "graph_orchestration", "theoretical_depth" >>}

\* Score range of JudicialOpinion.score (Field(ge=1, le=5)).
Scores == 1..5

\* An argument is a text, here its words in order. lower() maps a word to its
\* lower-case form; `term in argument.lower()` is modelled on whole words.
Arguments == {<< "No", "tests" >>, << "Security", "negligence" >>,
              << "Deep", "understanding" >>}

Lower(w) ==
    CASE w = "Security" -> "security"
      [] w = "Deep"     -> "deep"
      [] w = "No"       -> "no"
      [] w = "SYSTEM"   -> "system"
      [] w = "ERROR"    -> "error"
      [] OTHER          -> w

ContainsAny(argument, terms) ==
    \E i \in DOMAIN argument : Lower(argument[i]) \in terms

JudicialOpinion(judge, criterion_id, score, argument) ==
    [judge |-> judge, criterion_id |-> criterion_id, score |-> score,
     argument |-> argument]

\* The value None where a JudicialOpinion is expected (what the structured
\* model returns when its answer holds no JudicialOpinion).
NoOpinion == JudicialOpinion(None, None, 0, <<>>)

\* What the model may put in criterion_id: the prompt shows the dimension's
\* name, never its id, and the node does not overwrite the field.
LlmCriterionIds == CriterionIds \cup {"Graph Orchestration"}

\* The opinions structured_llm.invoke can return: any valid JudicialOpinion;
\* neither judge nor criterion_id is fixed by the node.
LlmOpinions ==
    {JudicialOpinion(j, c, sc, a) :
        j \in Judges, c \in LlmCriterionIds, sc \in Scores, a \in Arguments}

\* max_retries of the retry loop of prosecutor_node; defense_node and
\* tech_lead_node call the model once.
max_retries == 3

Attempts(p) == IF p = "Prosecutor" THEN max_retries ELSE 1

FallbackScore(p) ==
    CASE p = "Prosecutor" -> 1
      [] p = "Defense"    -> 4
      [] p = "TechLead"   -> 3

\* The opinion built in the except branch of a judge node.
Fallback(p, criterion_id) ==
    JudicialOpinion(p, criterion_id, FallbackScore(p), << "SYSTEM", "ERROR" >>)

JudgeInit ==
    /\ persona \in Judges
    /\ structured_llm \in BOOLEAN
    /\ rubric \in Rubrics
    /\ dim = 1
    /\ attempt = 0
    /\ opinions = <<>>
    /\ status = "judging"
    /\ ToolIdle
    /\ state = InitialState(<<>>)
    /\ entry = "invoke"
    /\ rubric_present = TRUE
    /\ repo_url = "url"
    /\ initial_state = InitialState(<<>>)
    /\ running = {}
    /\ triggered = {}
    /\ step = 0
    /\ exc = "none"
    /\ result = None
    /\ visits = ZeroCount
    /\ passRuns = ZeroCount
    /\ routes = {}
    /\ lastDone = "START"
    /\ lastWrite = EmptyDict
    /\ outcome = [n \in {"repo_investigator", "doc_analyst"} |-> "not_run"]
    /\ writes = <<>>
    /\ pending = {}
    /\ lastMerged = 0
    /\ prior = InitialState(<<>>)

\* The dimension's try block is left for the except branch: the fallback
\* opinion is appended and the loop goes to the next dimension.
ExceptBranch(appended) ==
    /\ opinions' = appended \o << Fallback(persona, rubric[dim]) >>
    /\ dim' = dim + 1
    /\ attempt' = 0

\* A call fails (the model raises, or there is no model): prosecutor_node
\* sleeps and tries again unless this was the last attempt; otherwise the
\* exception reaches the except branch.
CallFailed ==
    IF attempt < Attempts(persona) - 1
    THEN /\ attempt' = attempt + 1
         /\ UNCHANGED <<opinions, dim>>
    ELSE ExceptBranch(opinions)

\* structured_llm.invoke(prompt) for the current dimension, with what follows
\* it. The call raises; or it returns None, which is appended before printing
\* its score raises AttributeError; or it returns an opinion, which is
\* appended and its score printed.
InvokeLlm ==
    /\ status = "judging"
    /\ dim \in DOMAIN rubric
    /\ structured_llm
    /\ \/ CallFailed
       \/ ExceptBranch(opinions \o << NoOpinion >>)
       \/ \E r \in LlmOpinions :
             /\ opinions' = opinions \o << r >>
             /\ dim' = dim + 1
             /\ attempt' = 0
    /\ UNCHANGED <<state, graphVars, reducerVars, rubric, persona, structured_llm, toolVars>>

\* get_structured_judge returned None: raise Exception("No LLM available").
NoLlm ==
    /\ status = "judging"
    /\ dim \in DOMAIN rubric
    /\ ~structured_llm
    /\ CallFailed
    /\ UNCHANGED <<state, graphVars, reducerVars, rubric, persona, structured_llm, toolVars>>

\* return {"opinions": opinions}
JudgeReturn ==
    /\ status = "judging"
    /\ dim = Len(rubric) + 1
    /\ status' = "returned"
    /\ lastWrite' = [opinions |-> opinions]
    /\ UNCHANGED <<state, entry, rubric_present, repo_url, initial_state, running,
                   triggered, step, exc, result, visits, passRuns, routes, lastDone,
                   outcome, reducerVars, courtVars, toolVars>>

JudgeNext ==
    \/ InvokeLlm
    \/ NoLlm
    \/ JudgeReturn

JudgeSpec == JudgeInit /\ [][JudgeNext]_vars

(***************************************************************************)
(* C14: what a judge node returns                                          *)
(***************************************************************************)
\* The opinions of list l for criterion c.
ForCriterion(l, c) == SelectSeq(l, LAMBDA o : o.criterion_id = c)

\* C14: a judge node returns exactly one opinion per rubric criterion, carrying
\* the node's persona and the criterion's id; a failed call yields the
\* persona's fallback opinion. Violated: an opinion the model returns is
\* appended as it is, whatever its judge and criterion_id.
C14_OneOpinionPerCriterion ==
    status = "returned" =>
        /\ Len(lastWrite.opinions) = Len(rubric)
        /\ \A i \in DOMAIN rubric :
              /\ Len(ForCriterion(lastWrite.opinions, rubric[i])) = 1
              /\ \A o \in Range(ForCriterion(lastWrite.opinions, rubric[i])) :
                    o.judge = persona

(***************************************************************************)
(* The chief justice: chief_justice_node (src/nodes/justice.py)            *)
(***************************************************************************)
SecurityKeywords ==
    {"security", "vulnerability", "os.system", "injection", "sandbox", "unsafe"}

DepthKeywords == {"deep", "understanding", "metacognition", "sophisticated", "excellent"}

\* evidences.get(key, [])
Get(d, key) == IF key \in DOMAIN d THEN d[key] ELSE <<>>

\* Whether reading attribute `name` of object e succeeds: an Evidence has the
\* fields of its class and no other.
HasAttr(e, name) == name \in DOMAIN e

\* any(<test on e.dimension_id and e> for e in evs), for the list `hit` of
\* the elements' test results where they can be computed: the elements are
\* examined in order until one passes; reading dimension_id of an element
\* that has no such attribute raises AttributeError.
AnyEvidence(evs, hit) ==
    LET Examined(i) == \A j \in 1..(i - 1) : HasAttr(evs[j], "dimension_id") /\ ~hit[j]
    IN  IF \E i \in DOMAIN evs : Examined(i) /\ ~HasAttr(evs[i], "dimension_id")
        THEN "AttributeError"
        ELSE IF \E i \in DOMAIN evs : Examined(i) /\ hit[i]
             THEN "True"
             ELSE "False"

\* e.dimension_id == "safe_tool_engineering" and not e.found
security_test(e) ==
    HasAttr(e, "dimension_id") /\ e.dimension_id = "safe_tool_engineering" /\ ~e.found

\* e.dimension_id == "theoretical_depth" and e.found and e.confidence > 0.7
depth_test(e) ==
    /\ HasAttr(e, "dimension_id")
    /\ e.dimension_id = "theoretical_depth"
    /\ e.found
    /\ e.confidence > 70

\* next((o for o in dim_opinions if o.judge == j), None)
FirstBy(dim_opinions, j) ==
    LET l == SelectSeq(dim_opinions, LAMBDA o : o.judge = j)
    IN  IF l = <<>> THEN NoOpinion ELSE l[1]

\* The score used for a persona without an opinion ("default to 3 if missing").
DefaultScore == 3

\* o.score if o else 3
ScoreOrDefault(o) == IF o = NoOpinion THEN DefaultScore ELSE o.score

Max3(t) == CHOOSE x \in Range(t) : \A y \in Range(t) : y <= x

Min3(t) == CHOOSE x \in Range(t) : \A y \in Range(t) : x <= y

\* sorted(scores)[1] of three scores.
Median3(t) == t[1] + t[2] + t[3] - Max3(t) - Min3(t)

\* round(sum(scores) / len(scores)) for three integers: a third is never
\* half-way between two integers, so this is rounding to the nearest.
RoundedMean3(t) == (2 * (t[1] + t[2] + t[3]) + 3) \div 6

\* The larger of two numbers (not the code, which caps with min).
Max2(a, b) == IF a >= b THEN a ELSE b

Min2(a, b) == IF a <= b THEN a ELSE b

\* dissent_summary: None, or the text of the rule that decided, here the
\* rule's name, the numbers and the quoted argument the text is built from.
NoDissent == [rule |-> None, numbers |-> <<>>, reason |-> <<>>]

Dissent(rule, numbers, reason) == [rule |-> rule, numbers |-> numbers, reason |-> reason]

\* generate_remediation: a fixed text for scores of 4 and more, otherwise the
\* text of the dimension.
generate_remediation(dim_id, score) == IF score >= 4 THEN "No remediation needed" ELSE dim_id

CriterionResult(dim_id, final_score, dim_opinions, dissent) ==
    [exc |-> "none", dimension_id |-> dim_id, final_score |-> final_score,
     judge_opinions |-> dim_opinions, dissent_summary |-> dissent,
     remediation |-> generate_remediation(dim_id, final_score)]

\* The body of the loop over the rubric raised.
Raised(e) == [exc |-> e]

\* The local list `scores` of the loop body for dimension dim_id.
LocalScores(dim_id, ops) ==
    LET dim_opinions == ForCriterion(ops, dim_id)
    IN  << ScoreOrDefault(FirstBy(dim_opinions, "Prosecutor")),
           ScoreOrDefault(FirstBy(dim_opinions, "Defense")),
           ScoreOrDefault(FirstBy(dim_opinions, "TechLead")) >>

\* One pass of the loop body of chief_justice_node for a dimension that has
\* opinions: the CriterionResult appended, or the exception raised.
Synthesize(dim_id, ops, evidences) ==
    LET dim_opinions == ForCriterion(ops, dim_id)
        prosecutor   == FirstBy(dim_opinions, "Prosecutor")
        defense      == FirstBy(dim_opinions, "Defense")
        tech         == FirstBy(dim_opinions, "TechLead")
        scores       == LocalScores(dim_id, ops)
        defense_score == scores[2]
        tech_score   == scores[3]
        keyword      == /\ prosecutor # NoOpinion
                        /\ ContainsAny(prosecutor.argument, SecurityKeywords)
        repo         == Get(evidences, "repo")
        doc          == Get(evidences, "doc")
        security_evidence ==
            AnyEvidence(repo, [i \in DOMAIN repo |-> security_test(repo[i])])
        has_deep_evidence ==
            AnyEvidence(doc, [i \in DOMAIN doc |-> depth_test(doc[i])])
        score_variance == Max3(scores) - Min3(scores)
    IN  IF security_evidence = "AttributeError" THEN Raised("AttributeError")
        ELSE IF keyword \/ security_evidence = "True"
        THEN CriterionResult(dim_id, Min2(3, Max3(scores)), dim_opinions,
                 Dissent("SECURITY OVERRIDE", <<>>,
                         IF security_evidence = "True"
                         THEN << "Evidence", "shows", "security", "tooling", "issues" >>
                         ELSE prosecutor.argument))
        ELSE IF /\ defense # NoOpinion
                /\ defense_score >= 4
                /\ ContainsAny(defense.argument, DepthKeywords)
        THEN IF has_deep_evidence = "AttributeError" THEN Raised("AttributeError")
             ELSE IF has_deep_evidence = "False"
             THEN CriterionResult(dim_id, tech_score, dim_opinions,
                      Dissent("FACT SUPREMACY", << tech_score >>, <<>>))
             ELSE CriterionResult(dim_id, defense_score, dim_opinions, NoDissent)
        ELSE IF dim_id = "graph_orchestration"
        THEN CriterionResult(dim_id, tech_score, dim_opinions,
                 Dissent("FUNCTIONALITY WEIGHT", << tech_score >>, <<>>))
        ELSE IF score_variance > 2
        THEN CriterionResult(dim_id, Median3(scores), dim_opinions,
                 Dissent("DISSENT", << score_variance >> \o scores \o << Median3(scores) >>,
                         <<>>))
        ELSE CriterionResult(dim_id, RoundedMean3(scores), dim_opinions, NoDissent)

RECURSIVE SumScores(_)
SumScores(criteria) ==
    IF criteria = <<>> THEN 0
    ELSE Head(criteria).final_score + SumScores(Tail(criteria))

\* AuditReport: the criterion results in rubric order; overall_score is the
\* mean of the final scores, kept as the fraction total/count (0 when there
\* is no result).
AuditReport(criteria) ==
    [criteria |-> criteria,
     overall_score |-> [total |-> SumScores(criteria), count |-> Len(criteria)]]

\* chief_justice_node(state), with state["rubric_dimensions"] = rubric_dimensions:
\* the partial state it returns, or the exception that leaves it. Reading
\* o.criterion_id of a None in the opinions list raises as well.
chief_justice_node(rubric_dimensions, s) ==
    LET judged == SelectSeq(rubric_dimensions,
                            LAMBDA d : ForCriterion(s.opinions, d) # <<>>)
        criteria == [i \in DOMAIN judged |->
                        Synthesize(judged[i], s.opinions, s.evidences)]
    IN  IF rubric_dimensions # <<>> /\ NoOpinion \in Range(s.opinions)
        THEN Raised("AttributeError")
        ELSE IF \E i \in DOMAIN criteria : criteria[i].exc # "none"
        THEN Raised("AttributeError")
        ELSE [exc |-> "none", final_report |-> AuditReport(criteria)]

(***************************************************************************)
(* JusticeSpec: chief_justice_node applied to the state the judges and the *)
(* detectives leave                                                        *)
(***************************************************************************)
\* The arguments a persona's opinion is drawn with: only the Prosecutor's
\* argument is searched for security keywords and only the Defense's for
\* depth keywords.
ArgumentsOf(j) ==
    CASE j = "Prosecutor" -> {<< "No", "tests" >>, << "Security", "negligence" >>}
      [] j = "Defense"    -> {<< "No", "tests" >>, << "Deep", "understanding" >>}
      [] j = "TechLead"   -> {<< "No", "tests" >>}

\* The opinions in the state for a run on the one-dimension rubric << c >>:
\* one entry per judge node, each any opinion the node can append (any judge,
\* any score; the criterion's id, or the dimension's name in its place).
OpinionsFor(c) ==
    UNION {{JudicialOpinion(j, c, sc, a) : sc \in Scores, a \in ArgumentsOf(j)} :
              j \in Judges}
    \cup {JudicialOpinion(j, "Graph Orchestration", 3, << "No", "tests" >>) : j \in Judges}

\* state["evidences"] as chief_justice_node finds it: nothing, the document
\* record alone, or both detectives' records (sandboxing found or not).
CourtEvidences ==
    {EmptyDict,
     [k \in {"doc"} |-> DocEvidences("missing", 1)],
     [k \in Sources |-> IF k = "repo" THEN RepoEvidences("none", NoAnalysis, 1)
                        ELSE DocEvidences("missing", 1)],
     [k \in Sources |-> IF k = "repo" THEN RepoEvidences("none", AllFound, 1)
                        ELSE DocEvidences("missing", 1)]}

JusticeInit ==
    /\ \E c \in CriterionIds :
          /\ rubric = << c >>
          /\ \E ops \in [1..Cardinality(Judges) -> OpinionsFor(c)], ev \in CourtEvidences :
                state = [InitialState(<<>>) EXCEPT !.opinions = ops, !.evidences = ev]
    /\ status = "init"
    /\ ToolIdle
    /\ exc = "none"
    /\ lastWrite = EmptyDict
    /\ lastDone = "START"
    /\ persona = None
    /\ structured_llm = FALSE
    /\ dim = 0
    /\ attempt = 0
    /\ opinions = <<>>
    /\ entry = "invoke"
    /\ rubric_present = TRUE
    /\ repo_url = "url"
    /\ initial_state = InitialState(<<>>)
    /\ running = {}
    /\ triggered = {}
    /\ step = 0
    /\ result = None
    /\ visits = ZeroCount
    /\ passRuns = ZeroCount
    /\ routes = {}
    /\ outcome = [n \in {"repo_investigator", "doc_analyst"} |-> "not_run"]
    /\ writes = <<>>
    /\ pending = {}
    /\ lastMerged = 0
    /\ prior = InitialState(<<>>)

\* What a step of chief_justice_node alone leaves as it is.
courtFrame == <<entry, rubric_present, repo_url, initial_state, running, triggered,
                step, result, visits, passRuns, routes, outcome, reducerVars,
                courtVars, toolVars>>

\* chief_justice_node returns {"final_report": report}, merged into the state.
ChiefJusticeReturns ==
    /\ status = "init"
    /\ chief_justice_node(rubric, state).exc = "none"
    /\ lastWrite' = [final_report |-> chief_justice_node(rubric, state).final_report]
    /\ state' = ApplyWrites(state, lastWrite')
    /\ status' = "END"
    /\ lastDone' = "chief_justice"
    /\ UNCHANGED <<exc, courtFrame>>

\* chief_justice_node raises: nothing is returned.
ChiefJusticeRaises ==
    /\ status = "init"
    /\ chief_justice_node(rubric, state).exc # "none"
    /\ exc' = chief_justice_node(rubric, state).exc
    /\ status' = "error"
    /\ lastDone' = "chief_justice"
    /\ UNCHANGED <<state, lastWrite, courtFrame>>

JusticeNext ==
    \/ ChiefJusticeReturns
    \/ ChiefJusticeRaises

JusticeSpec == JusticeInit /\ [][JusticeNext]_vars

(***************************************************************************)
(* C15 - C20: the synthesis rules                                          *)
(***************************************************************************)
\* chief_justice_node has run on the state.
Synthesized == lastDone = "chief_justice" /\ status \in {"END", "error"}

\* The rubric criteria that have opinions in the state.
Judged == {c \in Range(rubric) : ForCriterion(state.opinions, c) # <<>>}

\* The personas without an opinion for criterion c.
MissingPersonas(c) ==
    {j \in Judges : FirstBy(ForCriterion(state.opinions, c), j) = NoOpinion}

ScoreIndex(j) == CASE j = "Prosecutor" -> 1 [] j = "Defense" -> 2 [] j = "TechLead" -> 3

\* The criterion result for c in the report that was returned.
ResultFor(c) ==
    LET criteria == lastWrite.final_report.criteria
    IN  criteria[CHOOSE i \in DOMAIN criteria : criteria[i].dimension_id = c]

\* The conditions of the rules as the specification states them, on the
\* records of the state.
SecurityOverrideHolds(c) ==
    \/ LET prosecutor == FirstBy(ForCriterion(state.opinions, c), "Prosecutor")
       IN  prosecutor # NoOpinion /\ ContainsAny(prosecutor.argument, SecurityKeywords)
    \/ \E e \in Range(Get(state.evidences, "repo")) :
          e.goal = "Tools use proper sandboxing" /\ ~e.found

DepthEvidence ==
    \E e \in Range(Get(state.evidences, "doc")) :
       e.goal = "PDF explains concept in depth" /\ e.found /\ e.confidence > 70

FactSupremacyHolds(c) ==
    LET defense == FirstBy(ForCriterion(state.opinions, c), "Defense")
    IN  /\ defense # NoOpinion
        /\ defense.score >= 4
        /\ ContainsAny(defense.argument, DepthKeywords)
        /\ ~DepthEvidence

\* Median and nearest-integer mean of three scores, by their definitions.
MedianOf(t) ==
    CHOOSE m \in Range(t) :
       /\ Cardinality({i \in 1..3 : t[i] <= m}) >= 2
       /\ Cardinality({i \in 1..3 : t[i] >= m}) >= 2

NearestToMean(t) ==
    CHOOSE n \in 0..6 :
       LET d == 3 * n - (t[1] + t[2] + t[3]) IN  -1 <= d /\ d <= 1

\* The score the cascade of the specification gives criterion c.
CascadeScore(c) ==
    LET scores == LocalScores(c, state.opinions)
    IN  IF SecurityOverrideHolds(c) THEN Min2(3, Max3(scores))
        ELSE IF FactSupremacyHolds(c) THEN scores[3]
        ELSE IF c = "graph_orchestration" THEN scores[3]
        ELSE IF Max3(scores) - Min3(scores) > 2 THEN MedianOf(scores)
        ELSE NearestToMean(scores)

\* C15: when a criterion has opinions from only some personas, each missing
\* persona's score is replaced by that persona's own default (Prosecutor 1,
\* Defense 4, TechLead 3) before the rules are evaluated, and the synthesis of
\* the criterion completes without raising. Violated: every missing score
\* becomes 3, and the synthesis raises when there is repository evidence.
C15_MissingPersonaGetsOwnDefault ==
    Synthesized =>
        \A c \in Judged :
           MissingPersonas(c) # {} =>
              /\ status = "END"
              /\ \A j \in MissingPersonas(c) :
                    LocalScores(c, state.opinions)[ScoreIndex(j)] = FallbackScore(j)

\* C16: for every criterion with opinions the final score is the one given by
\* the first rule whose condition holds, in the order Security Override, Fact
\* Supremacy, Functionality Weight, Variance, Consensus. Violated: with
\* evidence in the state no final score is produced.
C16_FirstMatchingRuleDecides ==
    Synthesized =>
        \A c \in Judged :
           /\ status = "END"
           /\ ResultFor(c).final_score = CascadeScore(c)

\* C17: whenever the Prosecutor's argument contains a security keyword, or an
\* Evidence record for safe tooling has found=false, the final score is
\* min(3, max of the three scores) and a dissent is recorded. Violated: the
\* evidence test raises on the first Evidence record.
C17_SecurityOverrideCapsAtThree ==
    Synthesized =>
        \A c \in Judged :
           SecurityOverrideHolds(c) =>
              /\ status = "END"
              /\ ResultFor(c).final_score = Min2(3, Max3(LocalScores(c, state.opinions)))
              /\ ResultFor(c).dissent_summary # NoDissent

\* C18: for graph_orchestration, whenever neither Security Override nor Fact
\* Supremacy triggers, the final score is the TechLead score and a dissent
\* stating the weighting is recorded. Violated only through the fault of C17:
\* with repository evidence in the state no final score is produced.
C18_ArchitectureTakesTechLeadScore ==
    Synthesized =>
        \A c \in Judged :
           (/\ c = "graph_orchestration"
            /\ ~SecurityOverrideHolds(c)
            /\ ~FactSupremacyHolds(c)) =>
              /\ status = "END"
              /\ ResultFor(c).final_score = LocalScores(c, state.opinions)[3]
              /\ ResultFor(c).dissent_summary.rule = "FUNCTIONALITY WEIGHT"

\* C19: when no override rule applies, a spread max - min > 2 gives the median
\* with a dissent recording the three scores and the spread; a spread <= 2
\* gives the mean rounded to the nearest integer and no dissent. Violated only
\* through the fault of C17: with repository evidence no score is produced.
C19_MedianOrRoundedMean ==
    Synthesized =>
        \A c \in Judged :
           (/\ c # "graph_orchestration"
            /\ ~SecurityOverrideHolds(c)
            /\ ~FactSupremacyHolds(c)) =>
              LET scores == LocalScores(c, state.opinions)
                  spread == Max3(scores) - Min3(scores)
              IN  /\ status = "END"
                  /\ spread > 2 =>
                        /\ ResultFor(c).final_score = MedianOf(scores)
                        /\ ResultFor(c).dissent_summary.rule = "DISSENT"
                        /\ SubSeq(ResultFor(c).dissent_summary.numbers, 1, 4)
                              = << spread >> \o scores
                  /\ spread <= 2 =>
                        /\ ResultFor(c).final_score = NearestToMean(scores)
                        /\ ResultFor(c).dissent_summary = NoDissent

\* The state with its opinions list reordered by the permutation p.
Reordered(s, p) == [s EXCEPT !.opinions = [i \in DOMAIN s.opinions |-> s.opinions[p[i]]]]

\* C20: for any two orderings of the same opinions list chief_justice_node
\* produces the same final score, dissent and criterion results. Violated:
\* judge_opinions keeps the arrival order, and of two opinions of one persona
\* for a criterion the first to arrive is the one that counts.
C20_OrderIndependent ==
    status = "init" =>
        \A p \in Permutations(DOMAIN state.opinions) :
           chief_justice_node(rubric, Reordered(state, p)) = chief_justice_node(rubric, state)

(***************************************************************************)
(* AuditSpec: the full audit. run_full_audit (imported by run.py from      *)
(* src.graph) and the graph it runs are not in the sources: the wiring     *)
(* below follows the specification's data flow (collectors in parallel,    *)
(* the evidence barrier, the opinion providers in parallel, a second       *)
(* barrier, the synthesis); the nodes are the ones of src/nodes.           *)
(***************************************************************************)
JudgeNodes == {"prosecutor", "defense", "tech_lead"}

AuditNodes == Nodes \cup JudgeNodes \cup {"chief_justice"}

PersonaOf(n) ==
    CASE n = "prosecutor" -> "Prosecutor"
      [] n = "defense"    -> "Defense"
      [] n = "tech_lead"  -> "TechLead"

\* What one pass of a judge node's loop body appends for criterion c: the
\* fallback (no model, or the calls raised), None and the fallback (the model
\* returned None), or the model's opinion, filed under the criterion's id or
\* under the dimension's name.
DimAppends(p, c) ==
    {<< Fallback(p, c) >>, << NoOpinion, Fallback(p, c) >>}
    \cup {<< JudicialOpinion(p, id, 3, << "No", "tests" >>) >> :
             id \in {c, "Graph Orchestration"}}

\* The lists a judge node can return for the dimensions rubric_dimensions[i..].
RECURSIVE JudgeResults(_, _, _)
JudgeResults(p, rubric_dimensions, i) ==
    IF i > Len(rubric_dimensions) THEN {<<>>}
    ELSE {a \o rest : a \in DimAppends(p, rubric_dimensions[i]),
                      rest \in JudgeResults(p, rubric_dimensions, i + 1)}

AuditInit ==
    /\ entry = "run_full_audit"
    /\ ToolIdle
    /\ rubric_present \in BOOLEAN
    /\ repo_url \in RepoUrls
    /\ rubric \in {<< c >> : c \in CriterionIds}
    /\ initial_state = InitialState(<<>>)
    /\ state = InitialState(<<>>)
    /\ running = {}
    /\ triggered = {}
    /\ step = 0
    /\ status = "init"
    /\ exc = "none"
    /\ result = None
    /\ visits = [n \in AuditNodes |-> 0]
    /\ passRuns = [n \in AuditNodes |-> 0]
    /\ routes = {}
    /\ lastDone = "START"
    /\ lastWrite = EmptyDict
    /\ outcome = [n \in {"repo_investigator", "doc_analyst"} |-> "not_run"]
    /\ writes = <<>>
    /\ pending = {}
    /\ lastMerged = 0
    /\ prior = InitialState(<<>>)
    /\ persona = None
    /\ structured_llm = FALSE
    /\ dim = 0
    /\ attempt = 0
    /\ opinions = <<>>

\* The evidence barrier routes to opinion-gathering: has_evidence fans out to
\* the three judges.
AuditCheckEvidenceTarget(label) ==
    CASE label = "has_evidence"     -> JudgeNodes
      [] label = "missing_evidence" -> {"error_handler"}

AuditCheckEvidence ==
    /\ status = "running"
    /\ "check_evidence" \in running
    /\ LET w     == check_evidence_node(state)
           label == check_evidence_exists(ApplyWrites(state, w))
       IN  /\ Complete("check_evidence", w, AuditCheckEvidenceTarget(label))
           /\ routes' = routes \cup {label}
    /\ passRuns' = [passRuns EXCEPT !["check_evidence"] = @ + 1]
    /\ UNCHANGED outcome

\* A judge node runs to its return; its opinions are merged through
\* operator.add, and the second barrier is told.
JudgeNode ==
    /\ status = "running"
    /\ \E n \in running \cap JudgeNodes :
          /\ \E l \in JudgeResults(PersonaOf(n), rubric, 1) :
                Complete(n, [opinions |-> l], {"chief_justice"})
          /\ passRuns' = [passRuns EXCEPT ![n] = @ + 1]
    /\ UNCHANGED <<routes, outcome>>

\* chief_justice_node returns the report; the run ends after it.
ChiefJusticeNode ==
    /\ status = "running"
    /\ "chief_justice" \in running
    /\ chief_justice_node(rubric, state).exc = "none"
    /\ Complete("chief_justice",
                [final_report |-> chief_justice_node(rubric, state).final_report], {})
    /\ passRuns' = [passRuns EXCEPT !["chief_justice"] = @ + 1]
    /\ UNCHANGED <<routes, outcome>>

\* chief_justice_node raises: nothing is written and the graph's invoke raises.
ChiefJusticeFault ==
    /\ status = "running"
    /\ "chief_justice" \in running
    /\ chief_justice_node(rubric, state).exc # "none"
    /\ running' = running \ {"chief_justice"}
    /\ lastDone' = "chief_justice"
    /\ lastWrite' = EmptyDict
    /\ status' = "error"
    /\ exc' = chief_justice_node(rubric, state).exc
    /\ result' = AfterException(exc')
    /\ UNCHANGED <<entry, rubric_present, repo_url, initial_state, state, triggered, step,
                   visits, passRuns, routes, outcome, reducerVars, courtVars, toolVars>>

\* retry_node and error_handler are not reached: no node writes errors and the
\* detectives always return a record.
AuditNext ==
    \/ Start
    \/ RepoInvestigator
    \/ DocAnalyst
    \/ EvidenceAggregator
    \/ AuditCheckEvidence
    \/ JudgeNode
    \/ ChiefJusticeNode
    \/ ChiefJusticeFault
    \/ NodeFault
    \/ NextSuperstep
    \/ Finish

AuditSpec == AuditInit /\ [][AuditNext]_vars

(***************************************************************************)
(* C13: the judges and the chief justice in the full audit                 *)
(***************************************************************************)
\* The run is over without a fault of the barrier nodes' own.
AuditOver == entry = "run_full_audit" /\ status \in {"END", "error"} /\ exc # "NodeFault"

\* C13: in a run with no errors and at least one Evidence item the three
\* judges all run, and chief_justice_node runs exactly once, only after all
\* three have completed, before the run ends with final_report set. Violated:
\* on the evidence the detectives leave chief_justice_node raises (the fault
\* of C17) and the run ends without a report.
C13_JudgesThenChiefJusticeOnce ==
    /\ "chief_justice" \in running => \A n \in JudgeNodes : visits[n] = 1
    /\ (AuditOver /\ "has_evidence" \in routes /\ state.errors = <<>>) =>
          /\ \A n \in JudgeNodes : visits[n] = 1
          /\ visits["chief_justice"] = 1
          /\ status = "END"
          /\ lastDone = "chief_justice"
          /\ "final_report" \in DOMAIN lastWrite

(***************************************************************************)
(* C21: criteria without opinions                                          *)
(***************************************************************************)
\* The criterion results of the report that was returned.
ReportCriteria == lastWrite.final_report.criteria

\* C21: each rubric criterion yields at most one CriterionResult; a criterion
\* with zero opinions yields none, and for each such criterion a warning is
\* recorded in the state's warnings. Violated: the criterion is skipped with a
\* print and nothing is written to warnings.
C21_UnjudgedCriterionIsWarned ==
    (Synthesized /\ status = "END") =>
        \A c \in Range(rubric) :
           /\ Cardinality({i \in DOMAIN ReportCriteria :
                              ReportCriteria[i].dimension_id = c}) <= 1
           /\ c \notin Judged =>
                 /\ \A i \in DOMAIN ReportCriteria : ReportCriteria[i].dimension_id # c
                 /\ Len(state.warnings) >= Cardinality(Range(rubric) \ Judged)

(***************************************************************************)
(* C22: final_report is written once, by chief_justice_node                *)
(***************************************************************************)
\* The scheduler's variables: every step of a run changes one of them.
control == <<running, triggered, step, status, visits, lastDone>>

C23_PartialStateSurvivesFault ==
    (entry = "run_detective_phase" /\ status = "error" /\ exc = "NodeFault") =>
        /\ Len(result.errors) > 0
        /\ result.evidences = state.evidences
        /\ result.opinions = state.opinions

(***************************************************************************)
(* CliSpec: the command line of src/cli.py around run_detective_phase      *)
(***************************************************************************)
\* The positional arguments a caller can give: none, one, the two that main
\* declares (the target reference may be the empty string), or one too many.
Argvs == {<<>>, <<"url">>, <<"url", "report.pdf">>, <<"", "report.pdf">>,
          <<"url", "report.pdf", "extra">>}

\* sys.exit(main()) is entered with the arguments on the command line.
CliInit ==
    /\ argv \in Argvs
    /\ exit_code = 0
    /\ status = "cli"
    /\ entry = "run_detective_phase"
    /\ rubric_present \in BOOLEAN
    /\ repo_url = ""
    /\ initial_state = InitialState(<<>>)
    /\ state = InitialState(<<>>)
    /\ running = {}
    /\ triggered = {}
    /\ step = 0
    /\ exc = "none"
    /\ result = None
    /\ visits = ZeroCount
    /\ passRuns = ZeroCount
    /\ routes = {}
    /\ lastDone = "START"
    /\ lastWrite = EmptyDict
    /\ outcome = [n \in {"repo_investigator", "doc_analyst"} |-> "not_run"]
    /\ writes = <<>>
    /\ pending = {}
    /\ lastMerged = 0
    /\ prior = InitialState(<<>>)
    /\ JudgeIdle
    /\ temp_dir = None
    /\ with_pc = "none"

cliFrame == <<entry, rubric_present, initial_state, state, running, triggered, step, exc,
              result, visits, passRuns, routes, lastDone, lastWrite, outcome, reducerVars,
              courtVars, argv, cloneVars>>

\* parser.parse_args() accepts exactly the two positionals repo_url and
\* pdf_path; main then calls run_detective_phase(args.repo_url, args.pdf_path).
ParseArgs ==
    /\ status = "cli"
    /\ Len(argv) = 2
    /\ repo_url' = argv[1]
    /\ status' = "init"
    /\ UNCHANGED <<exit_code, cliFrame>>

\* With a positional missing or one too many, parse_args() prints the usage
\* and leaves through parser.error(), which exits with status 2.
UsageError ==
    /\ status = "cli"
    /\ Len(argv) # 2
    /\ exit_code' = 2
    /\ status' = "exited"
    /\ UNCHANGED <<repo_url, cliFrame>>

\* run_detective_phase returned a state (the final one, or the initial one
\* with the error of its except branch): main prints the summary and ends
\* with `return 0`, which sys.exit turns into exit code 0.
MainReturns ==
    /\ status \in {"END", "error"}
    /\ exc # "FileNotFoundError"
    /\ exit_code' = 0
    /\ status' = "exited"
    /\ UNCHANGED <<repo_url, cliFrame>>

\* The FileNotFoundError of RubricLoader() left run_detective_phase: main has
\* no handler, the interpreter prints the traceback and exits with code 1.
MainRaises ==
    /\ status = "error"
    /\ exc = "FileNotFoundError"
    /\ exit_code' = 1
    /\ status' = "exited"
    /\ UNCHANGED <<repo_url, cliFrame>>

CliNext ==
    \/ ParseArgs
    \/ UsageError
    \/ Start
    \/ RepoInvestigator
    \/ DocAnalyst
    \/ EvidenceAggregator
    \/ CheckEvidence
    \/ NodeFault
    \/ NextSuperstep
    \/ Finish
    \/ MainReturns
    \/ MainRaises

CliSpec == CliInit /\ [][CliNext]_vars

(***************************************************************************)
(* C24: the exit code of the command line                                  *)
(***************************************************************************)
\* The run under the command line failed internally: graph.invoke or
\* run_detective_phase raised, so that the returned state (if any) carries
\* the error.
RunFailed == exc # "none"

\* C24: the command line exits with code 0 when the run succeeds, with code 1
\* on a usage error, and with a non-zero code when the run failed internally.
\* Violated: a usage error exits with argparse's code 2, and a run whose
\* returned state carries errors still ends in `return 0`.
C24_ExitCodes ==
    status = "exited" =>
        /\ Len(argv) # 2 => exit_code = 1
        /\ (Len(argv) = 2 /\ ~RunFailed) => exit_code = 0
        /\ (Len(argv) = 2 /\ RunFailed) => exit_code # 0

(***************************************************************************)
(* C25: the errors after retry_node                                        *)
(***************************************************************************)
\* C25: retry_node clears the errors for the retry: in the state merged after
\* retry_operation has run, state.errors is empty. Violated: the empty list
\* that retry_operation returns is appended to errors by the reducer, which
\* leaves the errors as they were.
C25_RetryClearsErrors ==
    (lastDone = "retry_node" /\ status = "running") => state.errors = <<>>

(***************************************************************************)
(* C26: the frame of the graph nodes                                       *)
(***************************************************************************)
\* Node n completes in this step.
Completes(n) == visits'[n] = visits[n] + 1

\* The step returns only evidences[k] and changes nothing else in the state.
WritesOnlyEvidence(k) ==
    /\ DOMAIN lastWrite' = {"evidences"}
    /\ DOMAIN lastWrite'.evidences = {k}
    /\ \A f \in DOMAIN state \ {"evidences"} : state'[f] = state[f]
    /\ DOMAIN state'.evidences = DOMAIN state.evidences \cup {k}
    /\ \A j \in DOMAIN state.evidences \ {k} : state'.evidences[j] = state.evidences[j]

\* C26: each node returns only the fields it affects and changes nothing
\* else: repo_investigator_node writes only evidences["repo"],
\* doc_analyst_node only evidences["doc"], and evidence_aggregator_node and
\* check_evidence_node leave every field of the state unchanged.
C26_NodesWriteOnlyTheirFields ==
    [][/\ Completes("repo_investigator") => WritesOnlyEvidence("repo")
       /\ Completes("doc_analyst") => WritesOnlyEvidence("doc")
       /\ (Completes("evidence_aggregator") \/ Completes("check_evidence")) =>
             (lastWrite' = EmptyDict /\ state' = state)]_control

\* A run in which the four nodes have completed and both sources are merged.
C26_Witness ==
    /\ status = "END"
    /\ \A n \in {"repo_investigator", "doc_analyst", "evidence_aggregator",
                 "check_evidence"} : visits[n] >= 1
    /\ DOMAIN state.evidences = {"repo", "doc"}
    /\ lastDone = "check_evidence"
    /\ lastWrite = EmptyDict

(***************************************************************************)
(* C27: the calls and the opinions of prosecutor_node per criterion        *)
(***************************************************************************)
\* C27: for each criterion prosecutor_node calls the model at most
\* max_retries times; it stops at the first successful call and appends that
\* opinion, and after the last failure it appends the fallback opinion with
\* score 1; in both cases exactly one opinion is appended and the loop goes
\* on with the next criterion. Violated: a call that returns None is
\* appended, printing its score raises, and the fallback is appended as well.
C27_ProsecutorAtMostThreeCallsOneOpinion ==
    [][(persona = "Prosecutor" /\ status = "judging" /\ dim \in DOMAIN rubric) =>
          /\ attempt < max_retries
          /\ attempt' < max_retries
          /\ (dim' = dim) =>
                (attempt' = attempt + 1 /\ opinions' = opinions)
          /\ (dim' = dim + 1) =>
                /\ Len(opinions') = Len(opinions) + 1
                /\ (opinions'[Len(opinions')] = Fallback("Prosecutor", rubric[dim]))
                   => opinions'[Len(opinions')].score = 1]_judgeVars

(***************************************************************************)
(* CloneSpec: repo_investigator_node step by step around its               *)
(* `with RepoInvestigator(state["repo_url"]) as investigator:`             *)
(* (src/nodes/detectives.py, src/tools/repo_tools.py), inside a run of     *)
(* run_detective_phase                                                     *)
(***************************************************************************)
\* The positions of with_pc at which control has left the with-statement, by
\* the way it left.
Left == {"left_normal", "left_body_fault", "left_cleanup_fault", "left_enter_fault"}

\* The fault of repo_investigator_node that each way out stands for.
FaultOf(pc) ==
    CASE pc = "no_with"            -> "RubricLoader"
      [] pc = "left_enter_fault"   -> "clone_repo"
      [] pc = "left_body_fault"    -> "check_sandboxing"
      [] pc = "left_cleanup_fault" -> "cleanup"
      [] pc = "left_normal"        -> "none"

CloneInit ==
    /\ temp_dir = None
    /\ with_pc = "none"
    /\ argv = <<>>
    /\ exit_code = 0
    /\ entry = "run_detective_phase"
    /\ rubric_present \in BOOLEAN
    /\ repo_url \in RepoUrls
    /\ initial_state = InitialState(<<>>)
    /\ state = InitialState(<<>>)
    /\ running = {}
    /\ triggered = {}
    /\ step = 0
    /\ status = "init"
    /\ exc = "none"
    /\ result = None
    /\ visits = ZeroCount
    /\ passRuns = ZeroCount
    /\ routes = {}
    /\ lastDone = "START"
    /\ lastWrite = EmptyDict
    /\ outcome = [n \in {"repo_investigator", "doc_analyst"} |-> "not_run"]
    /\ writes = <<>>
    /\ pending = {}
    /\ lastMerged = 0
    /\ prior = InitialState(<<>>)
    /\ JudgeIdle

cloneFrame == <<state, graphVars, reducerVars, courtVars, cliVars>>

\* The node is inside its try block and has not reached the with-statement.
InNode == status = "running" /\ "repo_investigator" \in running

\* RubricLoader() raises inside the node: the with-statement is not reached.
RubricLoaderRaises ==
    /\ InNode
    /\ with_pc = "none"
    /\ with_pc' = "no_with"
    /\ UNCHANGED <<temp_dir, cloneFrame>>

\* RepoInvestigator(url).__enter__ calls clone_repo, which first creates the
\* TemporaryDirectory and then starts git clone into it.
CloneRepo ==
    /\ InNode
    /\ with_pc = "none"
    /\ temp_dir' = "exists"
    /\ with_pc' = "cloning"
    /\ UNCHANGED cloneFrame

\* git clone succeeded: __enter__ returns self and the body starts.
CloneSucceeds ==
    /\ InNode
    /\ with_pc = "cloning"
    /\ repo_url # ""
    /\ with_pc' = "body"
    /\ UNCHANGED <<temp_dir, cloneFrame>>

\* git clone failed or timed out: clone_repo raises out of __enter__. The
\* with-statement calls __exit__ only when __enter__ has returned, so nothing
\* cleans the directory here.
CloneFails ==
    /\ InNode
    /\ with_pc = "cloning"
    /\ with_pc' = "left_enter_fault"
    /\ UNCHANGED <<temp_dir, cloneFrame>>

\* The body ends, normally or by the fault of check_sandboxing: __exit__ runs
\* temp_dir.cleanup() and, returning None, lets a fault go on to the except
\* branch of the node.
BodyEnds ==
    /\ InNode
    /\ with_pc = "body"
    /\ temp_dir' = "cleaned"
    /\ with_pc' \in {"left_normal", "left_body_fault"}
    /\ UNCHANGED cloneFrame

\* temp_dir.cleanup() raises in __exit__ (a file of the clone cannot be
\* removed): the directory is left behind in part.
CleanupFails ==
    /\ InNode
    /\ with_pc = "body"
    /\ with_pc' = "left_cleanup_fault"
    /\ UNCHANGED <<temp_dir, cloneFrame>>

\* The RepoInvestigator object is collected at a time the code does not
\* control, and the finalizer of its TemporaryDirectory removes the directory.
Finalizer ==
    /\ with_pc \in Left
    /\ temp_dir = "exists"
    /\ temp_dir' = "cleaned"
    /\ UNCHANGED <<with_pc, cloneFrame>>

\* return {"evidences": {"repo": evidences}}
RepoInvestigatorReturns ==
    /\ InNode
    /\ with_pc \in Left \cup {"no_with"}
    /\ \E a \in AnalysesFor(FaultOf(with_pc)) :
          Complete("repo_investigator", repo_investigator_node(FaultOf(with_pc), a, step),
                   {"evidence_aggregator"})
    /\ outcome' = [outcome EXCEPT !["repo_investigator"] = FaultOf(with_pc)]
    /\ passRuns' = [passRuns EXCEPT !["repo_investigator"] = @ + 1]
    /\ UNCHANGED routes

CloneNext ==
    \/ Start
    \/ RubricLoaderRaises
    \/ CloneRepo
    \/ CloneSucceeds
    \/ CloneFails
    \/ BodyEnds
    \/ CleanupFails
    \/ Finalizer
    \/ RepoInvestigatorReturns
    \/ DocAnalyst
    \/ EvidenceAggregator
    \/ CheckEvidence
    \/ NodeFault
    \/ NextSuperstep
    \/ Finish

CloneSpec == CloneInit /\ [][CloneNext]_vars

(***************************************************************************)
(* C28: the temporary directory of RepoInvestigator                        *)
(***************************************************************************)
\* C28: whenever control has left the with-statement, by normal exit, by a
\* fault in the body, or because clone_repo failed or timed out while
\* entering, the temporary directory created by clone_repo has been cleaned
\* up. Violated: when clone_repo raises in __enter__, __exit__ is not called
\* and the directory is still there when the with-statement is left.
C28_NoLeftoverDirectory ==
    with_pc \in Left => temp_dir # "exists"

(***************************************************************************)
(* C29: the range of the final score                                       *)
(***************************************************************************)
\* C29: every criterion result produced from opinions with scores in 1..5 has
\* a final score in 1..5 that is never greater than the largest of the three
\* scores (after default substitution), and never smaller than the smallest
\* of them except when the Security Override rule caps it at 3.
C29_FinalScoreWithinScores ==
    (Synthesized /\ status = "END") =>
        \A i \in DOMAIN ReportCriteria :
           LET r      == ReportCriteria[i]
               scores == LocalScores(r.dimension_id, state.opinions)
           IN  /\ r.final_score \in 1..5
               /\ r.final_score <= Max3(scores)
               /\ r.final_score < Min3(scores) =>
                     /\ r.dissent_summary.rule = "SECURITY OVERRIDE"
                     /\ r.final_score = 3

\* A result whose score the Security Override capped below all three scores.
C29_Witness ==
    /\ Synthesized
    /\ status = "END"
    /\ \E i \in DOMAIN ReportCriteria :
          /\ ReportCriteria[i].final_score
                < Min3(LocalScores(ReportCriteria[i].dimension_id, state.opinions))
          /\ MissingPersonas(ReportCriteria[i].dimension_id) = {}

(***************************************************************************)
(* C30: the only path of a run started by run_detective_phase              *)
(***************************************************************************)
\* C30: in a run started by run_detective_phase neither retry_node nor
\* error_handler is ever executed: no node writes to errors, so errors stays
\* empty and should_retry_or_fail always returns "continue"; each detective
\* returns at least one Evidence record, so check_evidence_exists always
\* returns "has_evidence"; the only path is START -> {repo_investigator,
\* doc_analyst} -> evidence_aggregator -> check_evidence -> END.
C30_DetectivePhaseSinglePath ==
    entry = "run_detective_phase" =>
        /\ visits["retry_node"] = 0 /\ visits["error_handler"] = 0
        /\ running \cap {"retry_node", "error_handler"} = {}
        /\ triggered \cap {"retry_node", "error_handler"} = {}
        /\ state.errors = <<>>
        /\ routes \subseteq {"continue", "has_evidence"}
        /\ visits["repo_investigator"] > 0 =>
              ("repo" \in DOMAIN state.evidences /\ Len(state.evidences["repo"]) >= 1)
        /\ visits["doc_analyst"] > 0 =>
              ("doc" \in DOMAIN state.evidences /\ Len(state.evidences["doc"]) >= 1)
        /\ \A n \in Nodes : visits[n] <= 1
        /\ visits["evidence_aggregator"] = 1 => \A n \in Detectives : visits[n] = 1
        /\ visits["check_evidence"] = 1 => visits["evidence_aggregator"] = 1
        /\ status = "END" => (visits["check_evidence"] = 1 /\ lastDone = "check_evidence")

\* A run of run_detective_phase that went down the path to END.
C30_Witness ==
    /\ entry = "run_detective_phase"
    /\ status = "END"
    /\ routes = {"continue", "has_evidence"}
    /\ visits["check_evidence"] = 1

====
